---- MODULE Spec2Model ----
(***************************************************************************)
(* Model of the aoc command-line entry point (src/main.rs): main,          *)
(* build_client, run and the exit classifier.  The aoc_client builder and  *)
(* client operations, and the argument definition (args.rs), are outside   *)
(* src/; they are modelled as fallible steps whose outcome the environment *)
(* chooses among the error kinds the specification lists for them.         *)
(***************************************************************************)
EXTENDS Naturals, Sequences, FiniteSets

VARIABLES args, pc, idx, builder, client, trace, log, result, exit_code

vars == <<args, pc, idx, builder, client, trace, log, result, exit_code>>

\* ---- bounds of the model ------------------------------------------------
MaxYear == 2
MaxDay == 2
MaxWidth == 2

MaxPath == 1

\* Option<T>: None is the empty sequence, Some(x) the sequence of x.
None == <<>>

Some(x) == <<x>>

\* No result yet / the process has not exited.
Pending == "Pending"

Paths == 1..MaxPath

Years == 1..MaxYear
Days == 1..MaxDay
Widths == 1..MaxWidth

\* ---- Command (args::Command as matched in run) --------------------------
Commands ==
    {"Calendar", "Download", "Submit", "PrivateLeaderboard", "Read",
     "GenerateCompletion"}

\* ---- Args (the fields main.rs reads) ------------------------------------
Args ==
    [session_file : {None} \cup {Some(f) : f \in Paths},
     year : {None} \cup {Some(y) : y \in Years},
     day : {None} \cup {Some(d) : d \in Days},
     width : {None} \cup {Some(w) : w \in Widths},
     command : {"Absent"} \cup Commands,
     input_only : BOOLEAN,
     puzzle_only : BOOLEAN]

\* ---- AocError kinds (the arms of the match in main) ---------------------
AocError ==
    {"InvalidPuzzleDate", "InvalidEventYear", "InvalidPuzzleDay",
     "LockedPuzzle", "SessionFileNotFound", "SessionFileReadError",
     "InvalidSessionCookie", "HttpRequestError", "AocResponseError",
     "PrivateLeaderboardNotAvailable", "FileWriteError",
     "ClientFieldMissing", "InvalidPuzzlePart", "InvalidOutputWidth"}

Ok == "Ok"

\* ---- exit codes (exit_code::*) ------------------------------------------
SUCCESS == "SUCCESS"
FAILURE == "FAILURE"
USAGE_ERROR == "USAGE_ERROR"
DATA_ERROR == "DATA_ERROR"
NO_INPUT == "NO_INPUT"
IO_ERROR == "IO_ERROR"
CANNOT_CREATE == "CANNOT_CREATE"

ExitCodes ==
    {SUCCESS, FAILURE, USAGE_ERROR, DATA_ERROR, NO_INPUT, IO_ERROR,
     CANNOT_CREATE}

\* A plausible slip in the classifier: a remote failure classified as usage.
ExitCodeOfResponseAsUsage(err) ==
    CASE err = "SessionFileNotFound" -> NO_INPUT
      [] err = "SessionFileReadError" -> IO_ERROR
      [] err = "InvalidSessionCookie" -> DATA_ERROR
      [] err = "HttpRequestError" -> FAILURE
      [] err = "PrivateLeaderboardNotAvailable" -> FAILURE
      [] err = "FileWriteError" -> CANNOT_CREATE
      [] OTHER -> USAGE_ERROR

\* main: let exit_code = match err { ... }
ExitCodeOf(err) ==
    CASE err = "InvalidPuzzleDate" -> USAGE_ERROR
      [] err = "InvalidEventYear" -> USAGE_ERROR
      [] err = "InvalidPuzzleDay" -> USAGE_ERROR
      [] err = "LockedPuzzle" -> USAGE_ERROR
      [] err = "SessionFileNotFound" -> NO_INPUT
      [] err = "SessionFileReadError" -> IO_ERROR
      [] err = "InvalidSessionCookie" -> DATA_ERROR
      [] err = "HttpRequestError" -> FAILURE
      [] err = "AocResponseError" -> FAILURE
      [] err = "PrivateLeaderboardNotAvailable" -> FAILURE
      [] err = "FileWriteError" -> CANNOT_CREATE
      [] err = "ClientFieldMissing" -> USAGE_ERROR
      [] err = "InvalidPuzzlePart" -> USAGE_ERROR
      [] err = "InvalidOutputWidth" -> USAGE_ERROR

\* ---- the builder (aoc_client::AocClientBuilder) -------------------------
\* AocClient::builder(): nothing set yet.
NewBuilder == [cookie |-> FALSE, year |-> None, day |-> None, width |-> None]

Step(op, arg) == [op |-> op, arg |-> arg]

Outcome(res, b) == [res |-> res, b |-> b]

Fail(errs, b) == {Outcome(e, b) : e \in errs}

\* session_cookie_from_file / session_cookie_from_default_locations
session_cookie(b) ==
    {Outcome(Ok, [b EXCEPT !.cookie = TRUE])}
        \cup Fail({"SessionFileNotFound", "SessionFileReadError",
                   "InvalidSessionCookie"}, b)

\* builder.year(year)
year(b, y) ==
    {Outcome(Ok, [b EXCEPT !.year = y])} \cup Fail({"InvalidEventYear"}, b)

\* builder.day(day)
day(b, d) ==
    {Outcome(Ok, [b EXCEPT !.day = d])}
        \cup Fail({"InvalidPuzzleDay", "LockedPuzzle", "InvalidPuzzleDate"}, b)

\* builder.latest_event_year(): the year is the environment's latest event.
latest_event_year(b) ==
    UNION {year(b, Some(y)) : y \in Years}

\* builder.latest_puzzle_day(): the latest day of the builder's event; with
\* no year set yet the event is the latest one, which it resolves first.
latest_puzzle_day(b) ==
    LET withYear == IF b.year = None THEN latest_event_year(b)
                    ELSE {Outcome(Ok, b)}
    IN  UNION {IF o.res = Ok THEN UNION {day(o.b, Some(d)) : d \in Days}
               ELSE {o} : o \in withYear}

\* builder.output_width(width)
output_width(b, w) ==
    {Outcome(Ok, [b EXCEPT !.width = w])} \cup Fail({"InvalidOutputWidth"}, b)

\* builder.build()
build(b) ==
    IF b.cookie = FALSE \/ b.year = None \/ b.day = None
    THEN "ClientFieldMissing"
    ELSE Ok

\* The outcomes of one builder call.
Apply(b, s) ==
    CASE s.op \in {"session_cookie_from_file",
                   "session_cookie_from_default_locations"} -> session_cookie(b)
      [] s.op = "year" -> year(b, s.arg)
      [] s.op = "day" -> day(b, s.arg)
      [] s.op = "latest_event_year" -> latest_event_year(b)
      [] s.op = "latest_puzzle_day" -> latest_puzzle_day(b)
      [] s.op = "output_width" -> output_width(b, s.arg)

\* ---- build_client: which builder calls it makes -------------------------
\* A plausible slip: the default-locations lookup whatever was given.
CredentialStepAlwaysDefault(a) ==
    Step("session_cookie_from_default_locations", None)

\* if let Some(file) = &args.session_file { .. } else { .. }
CredentialStep(a) ==
    IF a.session_file # None
    THEN Step("session_cookie_from_file", a.session_file)
    ELSE Step("session_cookie_from_default_locations", None)

\* A plausible slip: the (Some(year), None) arm stops after the year.
DateStepsYearOnly(a) ==
    CASE a.year # None /\ a.day # None ->
            <<Step("year", a.year), Step("day", a.day)>>
      [] a.year # None /\ a.day = None ->
            <<Step("year", a.year)>>
      [] a.year = None /\ a.day # None ->
            <<Step("latest_event_year", None), Step("day", a.day)>>
      [] a.year = None /\ a.day = None ->
            <<Step("latest_puzzle_day", None)>>

\* A plausible slip: the (None, Some(day)) arm sets the day first.
DateStepsDayFirst(a) ==
    CASE a.year # None /\ a.day # None ->
            <<Step("year", a.year), Step("day", a.day)>>
      [] a.year # None /\ a.day = None ->
            <<Step("year", a.year), Step("latest_puzzle_day", None)>>
      [] a.year = None /\ a.day # None ->
            <<Step("day", a.day), Step("latest_event_year", None)>>
      [] a.year = None /\ a.day = None ->
            <<Step("latest_puzzle_day", None)>>

\* match (args.year, args.day) { ... }
DateSteps(a) ==
    CASE a.year # None /\ a.day # None ->
            <<Step("year", a.year), Step("day", a.day)>>
      [] a.year # None /\ a.day = None ->
            <<Step("year", a.year), Step("latest_puzzle_day", None)>>
      [] a.year = None /\ a.day # None ->
            <<Step("latest_event_year", None), Step("day", a.day)>>
      [] a.year = None /\ a.day = None ->
            <<Step("latest_puzzle_day", None)>>

\* A plausible slip: the width is validated whether or not one was given.
WidthStepsAlways(a) == <<Step("output_width", a.width)>>

\* if let Some(width) = args.width { builder.output_width(width)?; }
WidthSteps(a) ==
    IF a.width # None THEN <<Step("output_width", a.width)>> ELSE <<>>

\* The infallible assignments that precede build().
AssignSteps ==
    <<Step("input_filename", None), Step("puzzle_filename", None),
      Step("overwrite_files", None), Step("show_html_markup", None)>>

\* ---- run: which client operations it makes ------------------------------
\* A plausible slip: the guards of the two saves exchanged.
DownloadStepsSwappedFlags(a) ==
    (IF ~a.puzzle_only THEN <<"save_puzzle_markdown">> ELSE <<>>)
        \o (IF ~a.input_only THEN <<"save_input">> ELSE <<>>)

\* A plausible slip: the flags ignored when both are set.
DownloadStepsBothMeansAll(a) ==
    IF a.input_only /\ a.puzzle_only
    THEN <<"save_puzzle_markdown", "save_input">>
    ELSE (IF ~a.input_only THEN <<"save_puzzle_markdown">> ELSE <<>>)
            \o (IF ~a.puzzle_only THEN <<"save_input">> ELSE <<>>)

\* Command::Download => { if !args.input_only {..} if !args.puzzle_only {..} }
DownloadSteps(a) ==
    (IF ~a.input_only THEN <<"save_puzzle_markdown">> ELSE <<>>)
        \o (IF ~a.puzzle_only THEN <<"save_input">> ELSE <<>>)

\* A plausible slip: an absent command shows the calendar.
RunOpNoneIsCalendar(c) ==
    CASE c = "Calendar" -> "show_calendar"
      [] c = "Submit" -> "submit_answer_and_show_outcome"
      [] c = "PrivateLeaderboard" -> "show_private_leaderboard"
      [] c = "Read" -> "show_puzzle"
      [] c = "Absent" -> "show_calendar"

\* The single client operation of the commands other than Download and
\* GenerateCompletion.
RunOp(c) ==
    CASE c = "Calendar" -> "show_calendar"
      [] c = "Submit" -> "submit_answer_and_show_outcome"
      [] c = "PrivateLeaderboard" -> "show_private_leaderboard"
      [] c = "Read" -> "show_puzzle"
      [] c = "Absent" -> "show_puzzle"

\* The results a client operation can return.
ClientResults(op) ==
    {Ok, "HttpRequestError", "AocResponseError", "InvalidSessionCookie"}
        \cup (IF op \in {"save_puzzle_markdown", "save_input"}
              THEN {"FileWriteError"} ELSE {})
        \cup (IF op = "show_private_leaderboard"
              THEN {"PrivateLeaderboardNotAvailable"} ELSE {})
        \cup (IF op = "submit_answer_and_show_outcome"
              THEN {"InvalidPuzzlePart"} ELSE {})

Call(op, arg, res) == [op |-> op, arg |-> arg, res |-> res]

\* ---- the program --------------------------------------------------------
Init ==
    /\ args \in Args
    /\ pc = "start"
    /\ idx = 1
    /\ builder = NewBuilder
    /\ client = FALSE
    /\ trace = <<>>
    /\ log = <<>>
    /\ result = Pending
    /\ exit_code = Pending

\* main: setup_log(&args); info!(..)
Start ==
    /\ pc = "start"
    /\ log' = Append(log, "info")
    /\ pc' = "credential"
    /\ UNCHANGED <<args, idx, builder, client, trace, result, exit_code>>

\* build_client: AocClient::builder() and the credential step
Credential ==
    /\ pc = "credential"
    /\ LET s == CredentialStep(args) IN
       \E o \in Apply(NewBuilder, s) :
          /\ trace' = Append(trace, Call(s.op, s.arg, o.res))
          /\ builder' = o.b
          /\ IF o.res = Ok
             THEN /\ pc' = "date"
                  /\ result' = result
             ELSE /\ pc' = "classify"
                  /\ result' = o.res
    /\ idx' = 1
    /\ UNCHANGED <<args, client, log, exit_code>>

\* build_client: one call of the year/day match arm, with its `?`
Date ==
    /\ pc = "date"
    /\ idx <= Len(DateSteps(args))
    /\ LET s == DateSteps(args)[idx] IN
       \E o \in Apply(builder, s) :
          /\ trace' = Append(trace, Call(s.op, s.arg, o.res))
          /\ builder' = o.b
          /\ IF o.res = Ok
             THEN /\ idx' = idx + 1
                  /\ pc' = pc
                  /\ result' = result
             ELSE /\ idx' = 1
                  /\ pc' = "classify"
                  /\ result' = o.res
    /\ UNCHANGED <<args, client, log, exit_code>>

\* build_client: the match arm is finished
DateDone ==
    /\ pc = "date"
    /\ idx > Len(DateSteps(args))
    /\ pc' = "width"
    /\ idx' = 1
    /\ UNCHANGED <<args, builder, client, trace, log, result, exit_code>>

\* build_client: the optional width step, with its `?`
Width ==
    /\ pc = "width"
    /\ WidthSteps(args) # <<>>
    /\ LET s == WidthSteps(args)[1] IN
       \E o \in Apply(builder, s) :
          /\ trace' = Append(trace, Call(s.op, s.arg, o.res))
          /\ builder' = o.b
          /\ IF o.res = Ok
             THEN /\ pc' = "build"
                  /\ result' = result
             ELSE /\ pc' = "classify"
                  /\ result' = o.res
    /\ UNCHANGED <<args, idx, client, log, exit_code>>

\* build_client: no width was given
NoWidth ==
    /\ pc = "width"
    /\ WidthSteps(args) = <<>>
    /\ pc' = "build"
    /\ UNCHANGED <<args, idx, builder, client, trace, log, result, exit_code>>

\* build_client: the assignments and build(); and_then calls run on Ok
Build ==
    /\ pc = "build"
    /\ LET r == build(builder) IN
       /\ trace' = trace
                \o [i \in 1..Len(AssignSteps) |->
                        Call(AssignSteps[i].op, None, Ok)]
                \o <<Call("build", None, r)>>
       /\ IF r = Ok
          THEN /\ client' = TRUE
               /\ pc' = "run"
               /\ result' = result
          ELSE /\ client' = client
               /\ pc' = "classify"
               /\ result' = r
    /\ idx' = 1
    /\ UNCHANGED <<args, builder, log, exit_code>>

\* run: the arms that make one client call
Run ==
    /\ pc = "run"
    /\ args.command \notin {"Download", "GenerateCompletion"}
    /\ LET op == RunOp(args.command) IN
       \E r \in ClientResults(op) :
          /\ trace' = Append(trace, Call(op, None, r))
          /\ result' = r
    /\ pc' = "classify"
    /\ UNCHANGED <<args, idx, builder, client, log, exit_code>>

\* run: Command::Download, one save with its `?`
DownloadSave ==
    /\ pc = "run"
    /\ args.command = "Download"
    /\ idx <= Len(DownloadSteps(args))
    /\ LET op == DownloadSteps(args)[idx] IN
       \E r \in ClientResults(op) :
          /\ trace' = Append(trace, Call(op, None, r))
          /\ IF r = Ok
             THEN /\ idx' = idx + 1
                  /\ pc' = pc
                  /\ result' = result
             ELSE /\ idx' = 1
                  /\ pc' = "classify"
                  /\ result' = r
    /\ UNCHANGED <<args, builder, client, log, exit_code>>

\* run: Command::Download, the final Ok(())
DownloadDone ==
    /\ pc = "run"
    /\ args.command = "Download"
    /\ idx > Len(DownloadSteps(args))
    /\ result' = Ok
    /\ pc' = "classify"
    /\ idx' = 1
    /\ UNCHANGED <<args, builder, client, trace, log, exit_code>>

\* run: Command::GenerateCompletion => { generate_completion(command); Ok(()) }
RunGenerateCompletion ==
    /\ pc = "run"
    /\ args.command = "GenerateCompletion"
    /\ trace' = Append(trace, Call("generate_completion", None, Ok))
    /\ result' = Ok
    /\ pc' = "classify"
    /\ UNCHANGED <<args, idx, builder, client, log, exit_code>>

\* main: Ok(_) => exit(SUCCESS)
ExitOk ==
    /\ pc = "classify"
    /\ result = Ok
    /\ exit_code' = SUCCESS
    /\ pc' = "exited"
    /\ UNCHANGED <<args, idx, builder, client, trace, log, result>>

\* A plausible slip: the hint printed for every error.
WarnAlways(code) == <<"warn">>

\* if exit_code == FAILURE { warn!(..) }
Warn(code) == IF code = FAILURE THEN <<"warn">> ELSE <<>>

\* main: Err(err) => { error!(..); classify; warn!(..)?; exit(exit_code) }
ExitErr ==
    /\ pc = "classify"
    /\ result \in AocError
    /\ LET code == ExitCodeOf(result) IN
       /\ log' = Append(log, "error") \o Warn(code)
       /\ exit_code' = code
    /\ pc' = "exited"
    /\ UNCHANGED <<args, idx, builder, client, trace, result>>

Next ==
    \/ Start
    \/ Credential
    \/ Date
    \/ DateDone
    \/ Width
    \/ NoWidth
    \/ Build
    \/ Run
    \/ DownloadSave
    \/ DownloadDone
    \/ RunGenerateCompletion
    \/ ExitOk
    \/ ExitErr

Spec == Init /\ [][Next]_vars

\* ---- observations on the trace ------------------------------------------
CredentialOps ==
    {"session_cookie_from_file", "session_cookie_from_default_locations"}

DateOps == {"year", "day", "latest_event_year", "latest_puzzle_day"}

AssignOps ==
    {"input_filename", "puzzle_filename", "overwrite_files",
     "show_html_markup"}

SaveOps == {"save_puzzle_markdown", "save_input"}

ClientOps ==
    SaveOps \cup {"show_calendar", "submit_answer_and_show_outcome",
                  "show_private_leaderboard", "show_puzzle"}

IsCredentialCall(c) == c.op \in CredentialOps
IsDateCall(c) == c.op \in DateOps
IsWidthCall(c) == c.op = "output_width"
IsSaveCall(c) == c.op \in SaveOps
IsRunCall(c) == c.op \in ClientOps \cup {"generate_completion"}

CredentialCalls == SelectSeq(trace, IsCredentialCall)
DateCalls == SelectSeq(trace, IsDateCall)
WidthCalls == SelectSeq(trace, IsWidthCall)
SaveCalls == SelectSeq(trace, IsSaveCall)
RunCalls == SelectSeq(trace, IsRunCall)

Exited == pc = "exited"

Called(op) == \E i \in 1..Len(trace) : trace[i].op = op

\* The position of the first call of op in the trace (0: never called).
FirstCall(op) ==
    IF Called(op)
    THEN CHOOSE i \in 1..Len(trace) :
            /\ trace[i].op = op
            /\ \A j \in 1..(i - 1) : trace[j].op # op
    ELSE 0

AllOkBefore(i) == \A j \in 1..(i - 1) : trace[j].res = Ok

\* ---- C1 -----------------------------------------------------------------
\* The exit-code table of section 6 of the specification.
Section6(err) ==
    IF err \in {"InvalidPuzzleDate", "InvalidEventYear", "InvalidPuzzleDay",
                "LockedPuzzle", "ClientFieldMissing", "InvalidPuzzlePart",
                "InvalidOutputWidth"} THEN USAGE_ERROR
    ELSE IF err = "SessionFileNotFound" THEN NO_INPUT
    ELSE IF err = "SessionFileReadError" THEN IO_ERROR
    ELSE IF err = "InvalidSessionCookie" THEN DATA_ERROR
    ELSE IF err \in {"HttpRequestError", "AocResponseError",
                     "PrivateLeaderboardNotAvailable"} THEN FAILURE
    ELSE IF err = "FileWriteError" THEN CANNOT_CREATE
    ELSE "unmapped"

\* C1: the classifier of main maps every AocError kind to the exit code of
\* the section 6 table, the process exits with the code of the error that
\* build_client or run returned, and it exits with SUCCESS exactly when
\* build_client built the client and every call made returned Ok.
C1_ExitClassifier ==
    /\ \A e \in AocError : ExitCodeOf(e) = Section6(e)
    /\ Exited =>
        /\ exit_code \in ExitCodes
        /\ result \in AocError => exit_code = Section6(result)
        /\ exit_code = SUCCESS <=> result = Ok
        /\ result = Ok <=>
              (client /\ \A i \in 1..Len(trace) : trace[i].res = Ok)

C1_Witness ==
    /\ Exited
    /\ result = "AocResponseError"
    /\ exit_code = FAILURE

\* ---- C2 -----------------------------------------------------------------
\* The steps of the section 4.1 table, as the claim states them.
Table41(a) ==
    <<IF a.year # None THEN Step("year", a.year)
      ELSE Step("latest_event_year", None),
      IF a.day # None THEN Step("day", a.day)
      ELSE Step("latest_puzzle_day", None)>>

\* The calls build_client makes: as the table, except that with neither a
\* year nor a day it makes the single call latest_puzzle_day.
Table41Amended(a) ==
    IF a.year = None /\ a.day = None
    THEN <<Step("latest_puzzle_day", None)>>
    ELSE Table41(a)

\* The date calls made so far follow the plan: they are a prefix of it, only
\* the last one made can have failed, a failure is the result of
\* build_client, and past the date match the whole plan was made.
FollowsPlan(plan) ==
    LET d == DateCalls IN
    /\ Len(d) <= Len(plan)
    /\ \A i \in 1..Len(d) : d[i].op = plan[i].op /\ d[i].arg = plan[i].arg
    /\ \A i \in 1..(Len(d) - 1) : d[i].res = Ok
    /\ \A i \in 1..Len(d) :
          d[i].res # Ok => i = Len(d) /\ result = d[i].res
    /\ pc \in {"width", "build", "run"} =>
          /\ Len(d) = Len(plan)
          /\ \A i \in 1..Len(d) : d[i].res = Ok

\* C2 as claimed: for all four year/day combinations build_client makes the
\* two steps of the section 4.1 table in order, and stops at the first
\* failing step with its error.
C2_Original == FollowsPlan(Table41(args))

\* C2 as amended: with a year or a day given build_client makes the two
\* steps of the table in order; with neither given it makes the single call
\* latest_puzzle_day and no separate latest_event_year call; in every case it
\* stops at the first failing call with its error.
C2_DateSteps == FollowsPlan(Table41Amended(args))

C2_Witness ==
    /\ args.year = None
    /\ args.day = None
    /\ pc = "width"
    /\ Len(DateCalls) = 1
    /\ DateCalls[1].op = "latest_puzzle_day"
    /\ ~Called("latest_event_year")

\* ---- C3 -----------------------------------------------------------------
\* C3 as claimed: an invocation whose command is GenerateCompletion never
\* makes a credential-loading call, a latest year/day resolution or a client
\* operation, and never exits with anything but SUCCESS.
C3_Original ==
    args.command = "GenerateCompletion" =>
        /\ exit_code \in {Pending, SUCCESS}
        /\ result \notin AocError
        /\ \A i \in 1..Len(trace) :
              trace[i].op \notin CredentialOps \cup ClientOps
                  \cup {"latest_event_year", "latest_puzzle_day"}

C5_Download ==
    (args.command = "Download" /\ client /\ pc \in {"classify", "exited"}) =>
        LET s == SaveCalls IN
        /\ (args.puzzle_only /\ ~args.input_only) =>
              Len(s) = 1 /\ s[1].op = "save_puzzle_markdown"
        /\ (args.input_only /\ ~args.puzzle_only) =>
              Len(s) = 1 /\ s[1].op = "save_input"
        /\ (~args.input_only /\ ~args.puzzle_only) =>
              /\ Len(s) >= 1
              /\ s[1].op = "save_puzzle_markdown"
              /\ s[1].res = Ok => Len(s) = 2 /\ s[2].op = "save_input"
        /\ \A i \in 1..Len(s) :
              (s[i].op = "save_puzzle_markdown" /\ s[i].res # Ok) =>
                  /\ ~Called("save_input")
                  /\ result = s[i].res

C5_Witness ==
    /\ args.command = "Download"
    /\ ~args.input_only
    /\ ~args.puzzle_only
    /\ Exited
    /\ Len(SaveCalls) = 1
    /\ SaveCalls[1].res = "FileWriteError"
    /\ exit_code = CANNOT_CREATE

\* ---- C6 -----------------------------------------------------------------
\* C6: build_client makes exactly one credential call, as its first builder
\* call: session_cookie_from_file if and only if a session file was given,
\* otherwise session_cookie_from_default_locations; if it fails nothing else
\* is called and its error decides the exit code.
C6_Credential ==
    /\ pc \in {"start", "credential"} => trace = <<>>
    /\ pc \notin {"start", "credential"} =>
        /\ Len(CredentialCalls) = 1
        /\ IsCredentialCall(trace[1])
        /\ trace[1].op = "session_cookie_from_file" <=>
              args.session_file # None
        /\ trace[1].op = "session_cookie_from_file" =>
              trace[1].arg = args.session_file
        /\ trace[1].res # Ok =>
              /\ Len(trace) = 1
              /\ ~client
              /\ result = trace[1].res
              /\ Exited => exit_code = Section6(trace[1].res)

C6_Witness ==
    /\ Exited
    /\ args.session_file # None
    /\ trace = <<Call("session_cookie_from_file", args.session_file,
                      "SessionFileNotFound")>>
    /\ exit_code = NO_INPUT

WidthFrame ==
    pc = "width" => /\ builder'.year = builder.year
                    /\ builder'.day = builder.day
                    /\ builder'.cookie = builder.cookie

\* C8: output_width is called only if a width was given, at most once, with
\* that width, after the credential and date calls all succeeded and before
\* the assignments and build; once build_client is past the width step it was
\* called exactly if a width was given; a rejected width is the
\* InvalidOutputWidth result of build_client, build is not called and the
\* exit code is USAGE_ERROR; the call leaves the year and the day unchanged.
C8_Width ==
    /\ [](/\ Len(WidthCalls) <= 1
          /\ Called("output_width") =>
                LET w == FirstCall("output_width") IN
                /\ args.width # None
                /\ trace[w].arg = args.width
                /\ AllOkBefore(w)
                /\ w = Len(CredentialCalls) + Len(DateCalls) + 1
                /\ Len(DateCalls) >= 1
                /\ builder.year # None /\ builder.day # None
                /\ \A i \in 1..(w - 1) :
                      trace[i].op \notin AssignOps \cup {"build"}
                /\ trace[w].res # Ok =>
                      /\ trace[w].res = "InvalidOutputWidth"
                      /\ w = Len(trace)
                      /\ result = "InvalidOutputWidth"
                      /\ ~client
                      /\ Exited => exit_code = USAGE_ERROR
          /\ (pc \in {"build", "run"} \/ Called("build")) =>
                (Called("output_width") <=> args.width # None))
    /\ [][WidthFrame]_vars

C8_Witness ==
    /\ Exited
    /\ args.width # None
    /\ Called("output_width")
    /\ result = "InvalidOutputWidth"
    /\ ~Called("build")
    /\ exit_code = USAGE_ERROR

\* ---- C9 -----------------------------------------------------------------
\* The operation the claim names for each command other than Download.
C9_Operation(c) ==
    IF c = "Calendar" THEN "show_calendar"
    ELSE IF c = "Submit" THEN "submit_answer_and_show_outcome"
    ELSE IF c = "PrivateLeaderboard" THEN "show_private_leaderboard"
    ELSE IF c = "GenerateCompletion" THEN "generate_completion"
    ELSE "show_puzzle"

\* C9: run is entered only with a built client; when it has returned it has
\* made exactly the one operation of the command (for Download, only saves),
\* an absent command making show_puzzle as Read does, and the result and
\* the exit code are those of that operation's outcome.
C9_Dispatch ==
    /\ ~client => RunCalls = <<>>
    /\ pc \in {"start", "credential", "date", "width", "build"} =>
          RunCalls = <<>>
    /\ (client /\ pc \in {"classify", "exited"}) =>
        LET r == RunCalls IN
        /\ args.command = "Download" =>
              \A i \in 1..Len(r) : r[i].op \in SaveOps
        /\ args.command # "Download" =>
              /\ Len(r) = 1
              /\ r[1].op = C9_Operation(args.command)
              /\ result = r[1].res
              /\ args.command = "GenerateCompletion" => result = Ok
              /\ Exited =>
                    exit_code = IF r[1].res = Ok THEN SUCCESS
                                ELSE Section6(r[1].res)

C9_Witness ==
    /\ args.command = "Absent"
    /\ Exited
    /\ Len(RunCalls) = 1
    /\ RunCalls[1] = Call("show_puzzle", None, "AocResponseError")
    /\ exit_code = FAILURE

\* ---- C10 ----------------------------------------------------------------
FlagsSet(a) ==
    (IF a.input_only THEN 1 ELSE 0) + (IF a.puzzle_only THEN 1 ELSE 0)

\* C10: Download with both flags set attempts no save, returns Ok and the
\* process exits with SUCCESS; in general the number of saves attempted is 2
\* minus the number of flags set unless the first attempted save failed, and
\* then it is 1.
C10_BothFlags ==
    (args.command = "Download" /\ client /\ pc \in {"classify", "exited"}) =>
        LET s == SaveCalls IN
        /\ (args.input_only /\ args.puzzle_only) =>
              /\ s = <<>>
              /\ result = Ok
              /\ Exited => exit_code = SUCCESS
        /\ (s = <<>> \/ s[1].res = Ok) => Len(s) + FlagsSet(args) = 2
        /\ (s # <<>> /\ s[1].res # Ok) => Len(s) = 1

C10_Witness ==
    /\ args.command = "Download"
    /\ args.input_only
    /\ args.puzzle_only
    /\ Exited
    /\ SaveCalls = <<>>
    /\ exit_code = SUCCESS

====
